---- MODULE Spec2Model ----
(***************************************************************************)
(* ATFLParser: a lexical layer (regex -> postfix -> Thompson NFA ->         *)
(* simulation) and a syntactic layer (AdaptivePDA, an LL(1) stack parser    *)
(* with affinity-driven repair).                                            *)
(*                                                                          *)
(* Tokens of the parser are one-character strings.  Affinity scores are     *)
(* kept in hundredths (0.95 -> 95), so that the thresholds 0.8 and 0.5 of   *)
(* adaptiveRepair become 80 and 50.                                         *)
(***************************************************************************)
EXTENDS Integers, Sequences, FiniteSets, TLC

VARIABLES
    alive,        \* the hosting process is running (FALSE after exit(1))
    adaptiveMap,  \* AdaptivePDA::adaptiveMap, actual token -> expected token
    s,            \* parse: the stack, top = last element
    tokens,       \* parse: the token vector, "$" appended
    ptr,          \* parse: read pointer, 0-based as in the code
    pc,           \* "idle" (no parse running), "loop" (inside the while loop),
                  \* "done" (the loop was left, parse is about to return)
    result,       \* how the last parse ended
    trace,        \* the records printed by the current / last parse, one per iteration
    map0,         \* adaptiveMap as it was when the current / last parse was called
    parsingTable,   \* AdaptivePDA::parsingTable, nonterminal -> (lookahead -> rule index)
    affinityMatrix, \* AdaptivePDA::affinityMatrix, required -> (actual -> score)
    stateStore,   \* StateManager::stateStore, the arena: a state's address is its index
    globalID,     \* NFAState::globalID
    lpc,          \* runPhase1: "idle", "build" (inside regexToNFA), "sim" (testing words);
                  \* main: "main-build", "main-sim", "main-clear", "end"
    regexIn,      \* runPhase1: the pattern it was called with
    postfix,      \* regexToNFA: its argument
    pos,          \* regexToNFA: number of postfix characters consumed
    st,           \* regexToNFA: the fragment stack, top = last element
    nfa,          \* runPhase1: the fragment regexToNFA returned
    stateCount,   \* runPhase1: the "States created" figure
    testNum,      \* runPhase1: number of the next test word
    word,         \* runPhase1: the test word simulated last
    matched,      \* runPhase1: the result of that simulation
    output,       \* what the last call of runPhase1 returned ("none" while running)
    callArg,      \* a caller of the preprocessor: the string it starts from
    callLog,      \* that caller: the calls made so far, each applied to the last result
    showTrace,    \* the GUI's "Show step-by-step trace" option
    nfaTrace      \* runPhase1: what simulateNFAWithTrace returned in the last test round
                  \* (NoTrace when the round did not call it)

pdaVars == <<adaptiveMap, s, tokens, ptr, pc, result, trace, map0,
             parsingTable, affinityMatrix>>
lexVars == <<stateStore, globalID, lpc, regexIn, postfix, pos, st, nfa, stateCount,
             testNum, word, matched, output>>
preVars == <<callArg, callLog>>
simVars == <<showTrace, nfaTrace>>
vars == <<alive, pdaVars, lexVars, preVars, simVars>>

----------------------------------------------------------------------------
(* Bounds of the model *)

MaxTokens == 5

\* The token alphabet the caller draws from: the grammar's terminals, the
\* RNA base U, and the end-marker symbol itself.
Alphabet == {"A", "G", "T", "C", "U", ".", "$"}

TokenSeqs == UNION {[1..n -> Alphabet] : n \in 0..MaxTokens}

EmptyMap == [x \in {} |-> "$"]

----------------------------------------------------------------------------
(* AdaptivePDA::AdaptivePDA -- the fixed tables *)

startSymbol == "S"

\* mutant: the closing bases of the two nesting productions swapped
grammarSwappedClosers ==
    << [lhs |-> "S", rhs |-> <<"A", "S", "C">>],
       [lhs |-> "S", rhs |-> <<"G", "S", "T">>],
       [lhs |-> "S", rhs |-> <<".">>] >>

grammar ==
    << [lhs |-> "S", rhs |-> <<"A", "S", "T">>],
       [lhs |-> "S", rhs |-> <<"G", "S", "C">>],
       [lhs |-> "S", rhs |-> <<".">>] >>

\* the parsing table the constructor fills in
parsingTable0 ==
    [nt \in {"S"} |-> ("A" :> 0) @@ ("G" :> 1) @@ ("." :> 2)]

\* the affinity matrix the constructor fills in
affinityMatrix0 ==
    ("T" :> ("U" :> 95)) @@ ("C" :> (("U" :> 60) @@ ("A" :> 5)))

\* m[k] on a std::map, as to what it leaves in the map: a missing key is
\* inserted with the value-initialised default
Subscript(m, k, default) ==
    IF k \in DOMAIN m THEN m ELSE (k :> default) @@ m

HighThreshold == 80
LowThreshold == 50

----------------------------------------------------------------------------
(* AdaptivePDA::adaptiveRepair *)

\* the score looked up by adaptiveRepair: 0.0 when the entry is missing
Affinity(requiredToken, actualToken) ==
    IF requiredToken \in DOMAIN affinityMatrix
       /\ actualToken \in DOMAIN affinityMatrix[requiredToken]
    THEN affinityMatrix[requiredToken][actualToken]
    ELSE 0

\* mutant: the score is read as affinityMatrix[requiredToken][actualToken]
\* without the two count() guards
MatrixAfterLookupUnguarded(matrix, requiredToken, actualToken) ==
    LET m1 == Subscript(matrix, requiredToken, EmptyMap)
    IN  [m1 EXCEPT ![requiredToken] = Subscript(@, actualToken, 0)]

\* the affinity matrix as the lookups of adaptiveRepair leave it:
\* count(requiredToken) && affinityMatrix[requiredToken].count(actualToken),
\* then affinityMatrix[requiredToken][actualToken]
MatrixAfterLookup(matrix, requiredToken, actualToken) ==
    IF requiredToken \in DOMAIN matrix
    THEN LET m1 == Subscript(matrix, requiredToken, EmptyMap)
         IN  IF actualToken \in DOMAIN m1[requiredToken]
             THEN [m1 EXCEPT ![requiredToken] = Subscript(@, actualToken, 0)]
             ELSE m1
    ELSE matrix

\* mutant: the moderate (wobble) tier is missing
RepairDecisionNoWobble(affinity) ==
    IF affinity > HighThreshold THEN "high" ELSE "low"

\* mutant: every positive score is taken for a moderate affinity
RepairDecisionAnyScore(affinity) ==
    IF affinity > HighThreshold THEN "high"
    ELSE IF affinity > 0 THEN "moderate"
    ELSE "low"

\* the three-tier decision
RepairDecision(affinity) ==
    IF affinity > HighThreshold THEN "high"
    ELSE IF affinity > LowThreshold THEN "moderate"
    ELSE "low"

\* mutant: the equivalence is not stored
LearnNothing(map, actualToken, requiredToken) == map

\* mutant: the equivalence is stored the wrong way round
LearnSwapped(map, actualToken, requiredToken) ==
    (requiredToken :> actualToken) @@ map

\* adaptiveMap[actualToken] = requiredToken
Learn(map, actualToken, requiredToken) ==
    (actualToken :> requiredToken) @@ map

----------------------------------------------------------------------------
(* AdaptivePDA::parse *)

Top == s[Len(s)]
Lookahead == tokens[ptr + 1]

Rec(action, top, la, score) ==
    [action |-> action, top |-> top, la |-> la, score |-> score]

\* mutant: the accept test on ($, $) is missing
BranchNoAccept(top, la, map) ==
    IF top \notin DOMAIN parsingTable
    THEN IF top = la THEN "match"
         ELSE IF la \in DOMAIN map /\ map[la] = top THEN "via"
         ELSE "repair"
    ELSE IF la \notin DOMAIN parsingTable[top] THEN "error" ELSE "expand"

\* mutant: the adaptive map is not consulted before the repair
BranchMapIgnored(top, la, map) ==
    IF top = "$" /\ la = "$" THEN "accept"
    ELSE IF top \notin DOMAIN parsingTable
         THEN IF top = la THEN "match" ELSE "repair"
         ELSE IF la \notin DOMAIN parsingTable[top] THEN "error" ELSE "expand"

\* mutant: any entry for the lookahead shifts, whatever token it names
BranchViaAnyEntry(top, la, map) ==
    IF top = "$" /\ la = "$" THEN "accept"
    ELSE IF top \notin DOMAIN parsingTable
         THEN IF top = la THEN "match"
              ELSE IF la \in DOMAIN map THEN "via"
              ELSE "repair"
         ELSE IF la \notin DOMAIN parsingTable[top] THEN "error" ELSE "expand"

\* which branch of the loop body one iteration takes
Branch(top, la, map) ==
    IF top = "$" /\ la = "$" THEN "accept"
    ELSE IF top \notin DOMAIN parsingTable
         THEN IF top = la THEN "match"
              ELSE IF la \in DOMAIN map /\ map[la] = top THEN "via"
              ELSE "repair"
         ELSE IF top \in DOMAIN parsingTable
              THEN IF la \notin DOMAIN parsingTable[top] THEN "error"
                   ELSE "expand"
              ELSE "unknown"

InLoop == alive /\ pc = "loop" /\ Len(s) > 0

\* the adaptive map as the test
\* adaptiveMap.count(lookahead) && adaptiveMap[lookahead] == top leaves it
MapAfterTest(map, la) ==
    IF la \in DOMAIN map THEN Subscript(map, la, "") ELSE map

\* the parsing table as parsingTable[top].find(lookahead) leaves it
TableAfterFind(table, top) == Subscript(table, top, EmptyMap)

\* the parsing table as parsingTable[top].find(lookahead) followed by
\* parsingTable[top][lookahead] leaves it
TableAfterLookup(table, top, la) ==
    LET t1 == TableAfterFind(table, top)
    IN  [t1 EXCEPT ![top] = Subscript(@, la, 0)]

\* the loop condition, evaluated after an iteration that changed the stack
AfterIteration(stack) ==
    IF Len(stack) = 0
    THEN pc' = "done" /\ result' = "fellout"
    ELSE pc' = "loop" /\ result' = result

Pop(stack) == SubSeq(stack, 1, Len(stack) - 1)

\* mutant: the right-hand side is pushed left to right
PushInOrder(stack, rhs) == stack \o rhs

\* push the right-hand side in reverse: rhs[1] ends on top
PushReversed(stack, rhs) ==
    stack \o [i \in 1..Len(rhs) |-> rhs[Len(rhs) + 1 - i]]

\* mutant: the end-marker is not pushed under the start symbol
ParseNoEndMarker(toks) ==
    /\ s' = <<startSymbol>>
    /\ ptr' = 0
    /\ tokens' = Append(toks, "$")
    /\ trace' = <<>>
    /\ pc' = "loop"
    /\ result' = "none"
    /\ map0' = adaptiveMap
    /\ UNCHANGED <<alive, adaptiveMap, parsingTable, affinityMatrix>>
    /\ UNCHANGED <<lexVars, preVars, simVars>>

\* the body of parse(toks) up to the loop
Parse(toks) ==
    /\ s' = <<"$", startSymbol>>
    /\ ptr' = 0
    /\ tokens' = Append(toks, "$")
    /\ trace' = <<>>
    /\ pc' = "loop"
    /\ result' = "none"
    /\ map0' = adaptiveMap
    /\ UNCHANGED <<alive, adaptiveMap, parsingTable, affinityMatrix>>
    /\ UNCHANGED <<lexVars, preVars, simVars>>

\* a caller calls parse on the parser with some token vector
CallParse ==
    /\ alive /\ pc = "idle"
    /\ \E toks \in TokenSeqs : Parse(toks)

Accept ==
    /\ InLoop
    /\ Branch(Top, Lookahead, adaptiveMap) = "accept"
    /\ trace' = Append(trace, Rec("STRUCTURE STABLE", Top, Lookahead, -1))
    /\ pc' = "done"
    /\ result' = "accept"
    /\ UNCHANGED <<alive, adaptiveMap, s, tokens, ptr, map0>>
    /\ UNCHANGED <<parsingTable, affinityMatrix>>
    /\ UNCHANGED <<lexVars, preVars, simVars>>

Match ==
    /\ InLoop
    /\ Branch(Top, Lookahead, adaptiveMap) = "match"
    /\ trace' = Append(trace, Rec("Match", Top, Lookahead, -1))
    /\ s' = Pop(s)
    /\ ptr' = ptr + 1
    /\ AfterIteration(s')
    /\ UNCHANGED <<alive, adaptiveMap, tokens, map0>>
    /\ UNCHANGED <<parsingTable, affinityMatrix>>
    /\ UNCHANGED <<lexVars, preVars, simVars>>

MatchVia ==
    /\ InLoop
    /\ Branch(Top, Lookahead, adaptiveMap) = "via"
    /\ trace' = Append(trace, Rec("Match via", Top, Lookahead, -1))
    /\ s' = Pop(s)
    /\ ptr' = ptr + 1
    /\ AfterIteration(s')
    /\ adaptiveMap' = MapAfterTest(adaptiveMap, Lookahead)
    /\ UNCHANGED <<alive, tokens, map0>>
    /\ UNCHANGED <<parsingTable, affinityMatrix>>
    /\ UNCHANGED <<lexVars, preVars, simVars>>

\* the call adaptiveRepair(top, lookahead)
Repair ==
    /\ InLoop
    /\ Branch(Top, Lookahead, adaptiveMap) = "repair"
    /\ LET affinity == Affinity(Top, Lookahead)
           decision == RepairDecision(affinity)
       IN  /\ trace' = Append(trace, Rec("ALERT " \o decision, Top, Lookahead, affinity))
           /\ IF decision \in {"high", "moderate"}
              THEN /\ adaptiveMap' =
                          Learn(MapAfterTest(adaptiveMap, Lookahead), Lookahead, Top)
                   /\ UNCHANGED <<alive, pc, result>>
              ELSE /\ alive' = FALSE          \* exit(1)
                   /\ result' = "affinity"
                   /\ adaptiveMap' = MapAfterTest(adaptiveMap, Lookahead)
                   /\ UNCHANGED pc
    /\ affinityMatrix' = MatrixAfterLookup(affinityMatrix, Top, Lookahead)
    /\ UNCHANGED <<s, tokens, ptr, map0, parsingTable>>
    /\ UNCHANGED <<lexVars, preVars, simVars>>

\* mutant: the table lookup inserts a default entry, so production 0 is applied
NoProductionDefault ==
    /\ alive /\ pc = "loop" /\ Len(s) > 0
    /\ s[Len(s)] \in DOMAIN parsingTable
    /\ tokens[ptr + 1] \notin DOMAIN parsingTable[s[Len(s)]]
    /\ trace' = Append(trace, Rec("Expand", s[Len(s)], tokens[ptr + 1], 0))
    /\ s' = PushReversed(Pop(s), grammar[1].rhs)
    /\ parsingTable' = TableAfterLookup(parsingTable, s[Len(s)], tokens[ptr + 1])
    /\ UNCHANGED <<alive, adaptiveMap, tokens, ptr, map0, pc, result, affinityMatrix>>
    /\ UNCHANGED <<lexVars, preVars, simVars>>

\* "ERROR: Invalid Start of Structure." / "Error: Unknown State."
NoProduction ==
    /\ InLoop
    /\ Branch(Top, Lookahead, adaptiveMap) \in {"error", "unknown"}
    /\ LET b == Branch(Top, Lookahead, adaptiveMap)
       IN  /\ trace' = Append(trace,
                 Rec(IF b = "error" THEN "ERROR: Invalid Start" ELSE "Error: Unknown State",
                     Top, Lookahead, -1))
           /\ result' = IF b = "error" THEN "structural" ELSE "unknown"
           /\ parsingTable' = IF b = "error" THEN TableAfterFind(parsingTable, Top)
                                              ELSE parsingTable
    /\ pc' = "done"
    /\ UNCHANGED <<alive, adaptiveMap, s, tokens, ptr, map0, affinityMatrix>>
    /\ UNCHANGED <<lexVars, preVars, simVars>>

Expand ==
    /\ InLoop
    /\ Branch(Top, Lookahead, adaptiveMap) = "expand"
    /\ LET ruleIndex == parsingTable[Top][Lookahead]
           p == grammar[ruleIndex + 1]
       IN  /\ trace' = Append(trace, Rec("Expand", p.lhs, Lookahead, ruleIndex))
           /\ s' = PushReversed(Pop(s), p.rhs)
    /\ parsingTable' = TableAfterLookup(parsingTable, Top, Lookahead)
    /\ AfterIteration(s')
    /\ UNCHANGED <<alive, adaptiveMap, tokens, ptr, map0, affinityMatrix>>
    /\ UNCHANGED <<lexVars, preVars, simVars>>

\* parse returns to its caller: its locals go out of scope, the member
\* adaptiveMap stays
Return ==
    /\ alive /\ pc = "done"
    /\ pc' = "idle"
    /\ s' = <<>>
    /\ tokens' = <<>>
    /\ ptr' = 0
    /\ trace' = <<>>
    /\ result' = "none"
    /\ map0' = EmptyMap
    /\ UNCHANGED <<alive, adaptiveMap, parsingTable, affinityMatrix>>
    /\ UNCHANGED <<lexVars, preVars, simVars>>


----------------------------------------------------------------------------
(* The lexical layer.  A character is its ASCII code, a string a sequence   *)
(* of characters.                                                           *)

chSpace == 32
chLParen == 40
chRParen == 41
chStar == 42
chPlus == 43
chDash == 45
chDot == 46
chBackslash == 92
chLBracket == 91
chRBracket == 93
chCaret == 94
chUnderscore == 95
chBar == 124
chLower_d == 100
chLower_s == 115
chLower_w == 119
chEpsilon == 69        \* 'E', the key of the epsilon transitions
FirstPrintable == 33
LastPrintable == 126

\* the characters from..to as a string (empty when from > to)
\* mutant: the range loop stops one character early
CharRangeExclusive(from, to) == [k \in 1..(to - from) |-> from + k - 1]

CharRange(from, to) == [k \in 1..(to - from + 1) |-> from + k - 1]

\* "(c1|c2|...|cn)" for n >= 2
UnionOf(chars) ==
    <<chLParen>> \o
    [k \in 1..(2 * Len(chars) - 1) |->
        IF k % 2 = 1 THEN chars[(k + 1) \div 2] ELSE chBar] \o
    <<chRParen>>

RECURSIVE ClassMembers(_, _, _)
\* the first loop of expandCharacterClass, from 1-based position i on
ClassMembers(classContent, i, chars) ==
    IF i > Len(classContent) THEN chars
    ELSE IF i + 2 <= Len(classContent) /\ classContent[i + 1] = chDash
         THEN ClassMembers(classContent, i + 3,
                           chars \o CharRange(classContent[i], classContent[i + 2]))
         ELSE ClassMembers(classContent, i + 1, Append(chars, classContent[i]))

Contains(str, c) == \E k \in 1..Len(str) : str[k] = c

expandCharacterClass(classContent, negate) ==
    LET listed == ClassMembers(classContent, 1, <<>>)
        chars == IF negate
                 THEN SelectSeq(CharRange(FirstPrintable, LastPrintable),
                                LAMBDA c : ~Contains(listed, c))
                 ELSE listed
    IN  IF Len(chars) = 0 THEN <<>>
        ELSE IF Len(chars) = 1 THEN <<chars[1]>>
        ELSE UnionOf(chars)

\* std::string::find(c, from): the first 1-based position >= from, 0 for npos
RECURSIVE Find(_, _, _)
Find(str, c, from) ==
    IF from > Len(str) THEN 0
    ELSE IF str[from] = c THEN from
    ELSE Find(str, c, from + 1)

DigitUnion == UnionOf(CharRange(48, 57))
WordUnion ==
    UnionOf(CharRange(65, 90) \o CharRange(97, 122) \o CharRange(48, 57)
            \o <<chUnderscore>>)
SpaceUnion == <<chLParen, chSpace, chRParen>>

RECURSIVE ExpandClasses(_, _, _)
\* PASS 0 of preprocessRegex, from 1-based position i on
ExpandClasses(regex, i, withClasses) ==
    IF i > Len(regex) THEN withClasses
    ELSE LET c == regex[i] IN
      IF c = chBackslash /\ i + 1 <= Len(regex)
      THEN LET next == regex[i + 1] IN
           IF next = chLower_d THEN ExpandClasses(regex, i + 2, withClasses \o DigitUnion)
           ELSE IF next = chLower_w THEN ExpandClasses(regex, i + 2, withClasses \o WordUnion)
           ELSE IF next = chLower_s THEN ExpandClasses(regex, i + 2, withClasses \o SpaceUnion)
           ELSE ExpandClasses(regex, i + 1, Append(withClasses, c))
      ELSE IF c = chLBracket
      THEN LET end == Find(regex, chRBracket, i + 1) IN
           IF end # 0
           THEN LET raw == SubSeq(regex, i + 1, end - 1)
                    negate == Len(raw) > 0 /\ raw[1] = chCaret
                    classContent == IF negate THEN SubSeq(raw, 2, Len(raw)) ELSE raw
                IN  ExpandClasses(regex, end + 1,
                                  withClasses \o expandCharacterClass(classContent, negate))
           ELSE ExpandClasses(regex, i + 1, Append(withClasses, c))
      ELSE ExpandClasses(regex, i + 1, Append(withClasses, c))

RECURSIVE GroupStart(_, _, _)
\* the backward scan for the balancing '(' : 1-based position j, current depth.
\* Returns <<j, depth>> as the while loop leaves them (j = 0 when it ran off).
GroupStart(expanded, j, depth) ==
    IF ~(j >= 1 /\ depth > 0) THEN <<j, depth>>
    ELSE LET d == IF expanded[j] = chRParen THEN depth + 1
                  ELSE IF expanded[j] = chLParen THEN depth - 1
                  ELSE depth
         IN  IF d = 0 THEN <<j, d>> ELSE GroupStart(expanded, j - 1, d)

\* one iteration of PASS 1 of preprocessRegex on character c
\* mutant: + is treated as *, the operand is not duplicated
PlusStepAsStar(expanded, c) ==
    IF c = chPlus
    THEN IF Len(expanded) = 0 THEN expanded ELSE Append(expanded, chStar)
    ELSE Append(expanded, c)

PlusStep(expanded, c) ==
    IF c = chPlus
    THEN IF Len(expanded) = 0 THEN expanded
         ELSE LET prev == expanded[Len(expanded)] IN
           IF prev = chRParen
           THEN LET jd == GroupStart(expanded, Len(expanded) - 1, 1) IN
                IF jd[2] = 0 /\ jd[1] >= 1
                THEN expanded \o SubSeq(expanded, jd[1], Len(expanded)) \o <<chStar>>
                ELSE expanded
           ELSE expanded \o <<prev, chStar>>
    ELSE Append(expanded, c)

\* PASS 1 of preprocessRegex over regex[lo..hi], left to right.  The range is
\* split in halves only to keep the evaluation depth logarithmic; the test
\* on Len(expanded) is never true and makes the accumulated value be computed
\* before the next characters are processed.
RECURSIVE ExpandPlus(_, _, _, _)
ExpandPlus(regex, expanded, lo, hi) ==
    IF Len(expanded) < 0 \/ lo > hi THEN expanded
    ELSE IF lo = hi THEN PlusStep(expanded, regex[lo])
    ELSE LET mid == (lo + hi) \div 2
         IN  ExpandPlus(regex, ExpandPlus(regex, expanded, lo, mid), mid + 1, hi)

\* what one iteration of PASS 2 of preprocessRegex appends for position i
\* mutant: no concatenation marker is inserted
ConcatPieceNoDot(expanded, i) == <<expanded[i]>>

\* mutant: a marker is inserted before * as well
ConcatPieceBeforeStar(expanded, i) ==
    LET c == expanded[i] IN
    IF i + 1 <= Len(expanded)
    THEN LET next == expanded[i + 1]
             leftProduces == c # chBar /\ c # chLParen
             rightConsumes == next # chBar /\ next # chRParen
         IN  IF leftProduces /\ rightConsumes THEN <<c, chDot>> ELSE <<c>>
    ELSE <<c>>

ConcatPiece(expanded, i) ==
    LET c == expanded[i] IN
    IF i + 1 <= Len(expanded)
    THEN LET next == expanded[i + 1]
             leftProduces == c # chBar /\ c # chLParen
             rightConsumes == next # chBar /\ next # chStar /\ next # chRParen
         IN  IF leftProduces /\ rightConsumes THEN <<c, chDot>> ELSE <<c>>
    ELSE <<c>>

\* PASS 2 of preprocessRegex over expanded[lo..hi]: the pieces in order
RECURSIVE InsertConcat(_, _, _)
InsertConcat(expanded, lo, hi) ==
    IF lo > hi THEN <<>>
    ELSE IF lo = hi THEN ConcatPiece(expanded, lo)
    ELSE LET mid == (lo + hi) \div 2
         IN  InsertConcat(expanded, lo, mid) \o InsertConcat(expanded, mid + 1, hi)

preprocessRegex(regex) ==
    LET withClasses == ExpandClasses(regex, 1, <<>>)
        expanded == ExpandPlus(withClasses, <<>>, 1, Len(withClasses))
    IN  InsertConcat(expanded, 1, Len(expanded))

\* mutant: the three operators have the same precedence
precedenceFlat(c) ==
    IF c = chStar \/ c = chDot \/ c = chBar THEN 1 ELSE 0

precedence(c) ==
    IF c = chStar THEN 3
    ELSE IF c = chDot THEN 2
    ELSE IF c = chBar THEN 1
    ELSE 0

\* the while loops of toPostfix, each popping operators to the output:
\* before pushing operator c, up to the nearest '(', and at the end of input
\* mutant: only operators of strictly higher precedence are popped
RECURSIVE PopHigherStrict(_, _, _)
PopHigherStrict(pfx, opStack, c) ==
    IF Len(opStack) > 0 /\ precedence(opStack[Len(opStack)]) > precedence(c)
    THEN PopHigherStrict(Append(pfx, opStack[Len(opStack)]),
                         SubSeq(opStack, 1, Len(opStack) - 1), c)
    ELSE <<pfx, opStack>>

RECURSIVE PopHigher(_, _, _)
PopHigher(pfx, opStack, c) ==
    IF Len(opStack) > 0 /\ precedence(opStack[Len(opStack)]) >= precedence(c)
    THEN PopHigher(Append(pfx, opStack[Len(opStack)]),
                   SubSeq(opStack, 1, Len(opStack) - 1), c)
    ELSE <<pfx, opStack>>

RECURSIVE PopToParen(_, _)
PopToParen(pfx, opStack) ==
    IF Len(opStack) > 0 /\ opStack[Len(opStack)] # chLParen
    THEN PopToParen(Append(pfx, opStack[Len(opStack)]),
                    SubSeq(opStack, 1, Len(opStack) - 1))
    ELSE <<pfx, opStack>>

RECURSIVE PopAll(_, _)
PopAll(pfx, opStack) ==
    IF Len(opStack) > 0
    THEN PopAll(Append(pfx, opStack[Len(opStack)]),
                SubSeq(opStack, 1, Len(opStack) - 1))
    ELSE pfx

\* mutant: every operator is written to the output at once, unordered
PostfixStepNoStack(ps, c) ==
    IF c = chLParen \/ c = chRParen THEN ps ELSE <<Append(ps[1], c), ps[2]>>

\* one iteration of the for loop of toPostfix; ps = <<postfix, opStack>>
PostfixStep(ps, c) ==
    IF c = chDot \/ c = chBar \/ c = chStar
    THEN LET r == PopHigher(ps[1], ps[2], c)
         IN  <<r[1], Append(r[2], c)>>
    ELSE IF c = chLParen
    THEN <<ps[1], Append(ps[2], c)>>
    ELSE IF c = chRParen
    THEN LET r == PopToParen(ps[1], ps[2])
         IN  <<r[1], IF Len(r[2]) > 0 THEN SubSeq(r[2], 1, Len(r[2]) - 1) ELSE r[2]>>
    ELSE <<Append(ps[1], c), ps[2]>>

\* the for loop of toPostfix over regex[lo..hi], left to right (split in
\* halves and forced like ExpandPlus)
RECURSIVE PostfixRun(_, _, _, _)
PostfixRun(regex, ps, lo, hi) ==
    IF Len(ps[1]) + Len(ps[2]) < 0 \/ lo > hi THEN ps
    ELSE IF lo = hi THEN PostfixStep(ps, regex[lo])
    ELSE LET mid == (lo + hi) \div 2
         IN  PostfixRun(regex, PostfixRun(regex, ps, lo, mid), mid + 1, hi)

toPostfix(regex) ==
    LET end == PostfixRun(regex, <<<<>>, <<>>>>, 1, Len(regex))
    IN  PopAll(end[1], end[2])


----------------------------------------------------------------------------
(* StateManager and NFAState: the arena.  A state is a record of its id and *)
(* its transition map (character -> list of state addresses).  ar is the    *)
(* pair of the two globals, [store |-> stateStore, gid |-> globalID].       *)

NoTransitions == <<>>

\* mutant: the constructor does not advance the counter
createSameId(ar) ==
    [store |-> Append(ar.store, [id |-> ar.gid, transitions |-> NoTransitions]),
     gid |-> ar.gid]

\* StateManager::create with the NFAState constructor: the new state's
\* address is Len(create(ar).store)
create(ar) ==
    [store |-> Append(ar.store, [id |-> ar.gid, transitions |-> NoTransitions]),
     gid |-> ar.gid + 1]

\* mutant: clear releases nothing
clearKeepsStates(ar) == ar

\* StateManager::clear
clear(ar) == [store |-> <<>>, gid |-> ar.gid]

\* StateManager::resetID
resetID(ar) == [store |-> ar.store, gid |-> 0]

\* StateManager::getStateCount
getStateCount(ar) == Len(ar.store)

\* from->transitions[c].push_back(to)
AddEdge(store, from, c, to) ==
    [store EXCEPT ![from].transitions =
        IF c \in DOMAIN @ THEN [@ EXCEPT ![c] = Append(@, to)]
        ELSE (c :> <<to>>) @@ @]

\* for (auto f : finals) f->transitions['E'].push_back(to1) [and to2]
RECURSIVE LinkFinals(_, _, _, _)
LinkFinals(store, finals, k, targets) ==
    IF k > Len(finals) THEN store
    ELSE LET one == AddEdge(store, finals[k], chEpsilon, targets[1])
             both == IF Len(targets) = 2
                     THEN AddEdge(one, finals[k], chEpsilon, targets[2])
                     ELSE one
         IN  LinkFinals(both, finals, k + 1, targets)

Fragment(start, finals) == [start |-> start, finals |-> finals]

----------------------------------------------------------------------------
(* Thompson's construction: each helper returns the arena and the fragment *)

makeChar(ar, c) ==
    LET a1 == create(ar)
        start == Len(a1.store)
        a2 == create(a1)
        end == Len(a2.store)
    IN  [ar |-> [store |-> AddEdge(a2.store, start, c, end), gid |-> a2.gid],
         frag |-> Fragment(start, <<end>>)]

makeUnion(ar, first, second) ==
    LET a1 == create(ar)
        start == Len(a1.store)
        a2 == create(a1)
        end == Len(a2.store)
        s1 == AddEdge(a2.store, start, chEpsilon, first.start)
        s2 == AddEdge(s1, start, chEpsilon, second.start)
        s3 == LinkFinals(s2, first.finals, 1, <<end>>)
        s4 == LinkFinals(s3, second.finals, 1, <<end>>)
    IN  [ar |-> [store |-> s4, gid |-> a2.gid],
         frag |-> Fragment(start, <<end>>)]

\* mutant: the finals of the first operand are not linked to the second
makeConcatNoLink(ar, first, second) ==
    [ar |-> ar, frag |-> Fragment(first.start, second.finals)]

makeConcat(ar, first, second) ==
    [ar |-> [store |-> LinkFinals(ar.store, first.finals, 1, <<second.start>>),
             gid |-> ar.gid],
     frag |-> Fragment(first.start, second.finals)]

\* mutant: the skip edge start -> end is missing
makeStarNoSkip(ar, fragment) ==
    LET a1 == create(ar)
        start == Len(a1.store)
        a2 == create(a1)
        end == Len(a2.store)
        s1 == AddEdge(a2.store, start, chEpsilon, fragment.start)
        s3 == LinkFinals(s1, fragment.finals, 1, <<fragment.start, end>>)
    IN  [ar |-> [store |-> s3, gid |-> a2.gid],
         frag |-> Fragment(start, <<end>>)]

makeStar(ar, fragment) ==
    LET a1 == create(ar)
        start == Len(a1.store)
        a2 == create(a1)
        end == Len(a2.store)
        s1 == AddEdge(a2.store, start, chEpsilon, fragment.start)
        s2 == AddEdge(s1, start, chEpsilon, end)
        s3 == LinkFinals(s2, fragment.finals, 1, <<fragment.start, end>>)
    IN  [ar |-> [store |-> s3, gid |-> a2.gid],
         frag |-> Fragment(start, <<end>>)]

----------------------------------------------------------------------------
(* The simulator *)

\* getEpsilonClosure(s, visited, closure); vc = <<visited ids, closure addresses>>
RECURSIVE getEpsilonClosure(_, _, _)
RECURSIVE ClosureOfEach(_, _, _, _)
getEpsilonClosure(store, p, vc) ==
    IF store[p].id \in vc[1] THEN vc
    ELSE LET vc1 == <<vc[1] \cup {store[p].id}, vc[2] \cup {p}>>
         IN  IF chEpsilon \in DOMAIN store[p].transitions
             THEN ClosureOfEach(store, store[p].transitions[chEpsilon], 1, vc1)
             ELSE vc1

\* for (auto next : list) getEpsilonClosure(next, visited, closure)
ClosureOfEach(store, list, k, vc) ==
    IF k > Len(list) THEN vc
    ELSE ClosureOfEach(store, list, k + 1, getEpsilonClosure(store, list[k], vc))

\* one iteration of the for loop of simulateNFA: the next state set
SimStep(store, currentStates, c) ==
    UNION { UNION { getEpsilonClosure(store, sp.transitions[c][k], <<{}, {}>>)[2] :
                       k \in 1..Len(sp.transitions[c]) } :
            sp \in { store[q] : q \in { q \in currentStates :
                                            c \in DOMAIN store[q].transitions } } }

\* the for loop of simulateNFA from 1-based position i on: the state set at
\* the end, and whether the loop was left early on an empty set
RECURSIVE SimRun(_, _, _, _)
SimRun(store, currentStates, input, i) ==
    IF i > Len(input) THEN [dead |-> FALSE, states |-> currentStates]
    ELSE LET nextStates == SimStep(store, currentStates, input[i])
         IN  IF nextStates = {} THEN [dead |-> TRUE, states |-> nextStates]
             ELSE SimRun(store, nextStates, input, i + 1)

simulateNFA(store, fragment, input) ==
    LET start == getEpsilonClosure(store, fragment.start, <<{}, {}>>)[2]
        end == SimRun(store, start, input, 1)
    IN  IF end.dead THEN FALSE
        ELSE \E q \in end.states :
                \E k \in 1..Len(fragment.finals) : q = fragment.finals[k]

\* the values currentStates takes in simulateNFA, in order: the initial
\* closure, then nextStates after each character read (the empty set included,
\* on which the function returns)
RECURSIVE SimStatesFrom(_, _, _, _)
SimStatesFrom(store, currentStates, input, i) ==
    IF i > Len(input) THEN <<currentStates>>
    ELSE LET nextStates == SimStep(store, currentStates, input[i])
         IN  IF nextStates = {} THEN <<currentStates, nextStates>>
             ELSE <<currentStates>> \o SimStatesFrom(store, nextStates, input, i + 1)

SimStates(store, fragment, input) ==
    SimStatesFrom(store, getEpsilonClosure(store, fragment.start, <<{}, {}>>)[2], input, 1)

\* mutant: the successors are taken without their epsilon closure
TraceStepNoClosure(store, currentStates, c) ==
    LET movers == { q \in currentStates : c \in DOMAIN store[q].transitions }
    IN  [read |-> c,
         taken |-> {},
         after |-> UNION { { store[q].transitions[c][k] :
                               k \in 1..Len(store[q].transitions[c]) } : q \in movers }]

\* one iteration of the for loop of simulateNFAWithTrace: the character read,
\* the "State q --[c]--> q, q" lines (ids), and the set after closure
TraceStep(store, currentStates, c) ==
    LET movers == { q \in currentStates : c \in DOMAIN store[q].transitions }
        targets(q) == store[q].transitions[c]
    IN  [read |-> c,
         taken |-> { <<store[q].id,
                       [k \in 1..Len(targets(q)) |-> store[targets(q)[k]].id]>> :
                     q \in movers },
         after |-> UNION { UNION { getEpsilonClosure(store, targets(q)[k], <<{}, {}>>)[2] :
                                     k \in 1..Len(targets(q)) } : q \in movers }]

\* the for loop of simulateNFAWithTrace from 1-based position i on
RECURSIVE TraceRun(_, _, _, _, _)
TraceRun(store, currentStates, input, i, steps) ==
    IF i > Len(input) THEN [steps |-> steps, dead |-> FALSE, states |-> currentStates]
    ELSE LET r == TraceStep(store, currentStates, input[i])
         IN  IF r.after = {}
             THEN [steps |-> Append(steps, r), dead |-> TRUE, states |-> r.after]
             ELSE TraceRun(store, r.after, input, i + 1, Append(steps, r))

\* the trace text by its content: the "Step 0" set, the steps, whether
\* "DEAD STATE" was written, and whether "is a final state" was written
simulateNFAWithTrace(store, fragment, input) ==
    LET initial == getEpsilonClosure(store, fragment.start, <<{}, {}>>)[2]
        run == TraceRun(store, initial, input, 1, <<>>)
    IN  [initial |-> initial,
         steps |-> run.steps,
         dead |-> run.dead,
         final |-> ~run.dead /\ \E q \in run.states :
                       \E k \in 1..Len(fragment.finals) : q = fragment.finals[k]]

\* no trace was asked for
NoTrace == [initial |-> {}, steps |-> <<>>, dead |-> FALSE, final |-> FALSE]

----------------------------------------------------------------------------
(* regexToNFA, one postfix character per step, and runPhase1 around it *)

MaxPattern == 4
MaxWord == 1
MaxTests == 2

PatternAlphabet == {65, 71, chBar, chStar, chPlus, chLParen, chRParen}
Patterns == UNION {[1..n -> PatternAlphabet] : n \in 0..MaxPattern}
WordAlphabet == {65, 71}
Words == UNION {[1..n -> WordAlphabet] : n \in 1..MaxWord}

NoFragment == Fragment(0, <<>>)
Arena == [store |-> stateStore, gid |-> globalID]

\* inside regexToNFA, called by runPhase1 ("build") or by main ("main-build")
Building == alive /\ lpc \in {"build", "main-build"}
NextChar == postfix[pos + 1]
StTop == st[Len(st)]
StSecond == st[Len(st) - 1]

\* runPhase1 with an empty pattern: returned before anything is touched
RunPhase1Empty ==
    /\ alive /\ lpc = "idle"
    /\ regexIn' = <<>>
    /\ output' = "Error: Please enter a regex pattern."
    /\ UNCHANGED <<stateStore, globalID, lpc, postfix, pos, st, nfa, stateCount,
                   testNum, word, matched>>
    /\ UNCHANGED <<alive, pdaVars, preVars, simVars>>

\* runPhase1 up to the call of regexToNFA
RunPhase1(regex) ==
    /\ regexIn' = regex
    /\ LET ar == resetID(clear(Arena))
       IN  stateStore' = ar.store /\ globalID' = ar.gid
    /\ postfix' = toPostfix(preprocessRegex(regex))
    /\ pos' = 0
    /\ st' = <<>>
    /\ lpc' = "build"
    /\ output' = "none"
    /\ UNCHANGED <<nfa, stateCount, testNum, word, matched>>
    /\ UNCHANGED <<alive, pdaVars, preVars, simVars>>

CallRunPhase1 ==
    /\ alive /\ lpc = "idle"
    /\ \E regex \in Patterns \ {<<>>} : RunPhase1(regex)

BuildFrame == UNCHANGED <<lpc, regexIn, postfix, nfa, stateCount, testNum, word,
                          matched, output, alive, pdaVars, preVars, simVars>>

BuildConcat ==
    /\ Building /\ pos < Len(postfix)
    /\ NextChar = chDot /\ Len(st) >= 2
    /\ LET r == makeConcat(Arena, StSecond, StTop)
       IN  /\ stateStore' = r.ar.store /\ globalID' = r.ar.gid
           /\ st' = Append(SubSeq(st, 1, Len(st) - 2), r.frag)
    /\ pos' = pos + 1
    /\ BuildFrame

BuildUnion ==
    /\ Building /\ pos < Len(postfix)
    /\ NextChar = chBar /\ Len(st) >= 2
    /\ LET r == makeUnion(Arena, StSecond, StTop)
       IN  /\ stateStore' = r.ar.store /\ globalID' = r.ar.gid
           /\ st' = Append(SubSeq(st, 1, Len(st) - 2), r.frag)
    /\ pos' = pos + 1
    /\ BuildFrame

BuildStar ==
    /\ Building /\ pos < Len(postfix)
    /\ NextChar = chStar /\ Len(st) >= 1
    /\ LET r == makeStar(Arena, StTop)
       IN  /\ stateStore' = r.ar.store /\ globalID' = r.ar.gid
           /\ st' = Append(SubSeq(st, 1, Len(st) - 1), r.frag)
    /\ pos' = pos + 1
    /\ BuildFrame

BuildChar ==
    /\ Building /\ pos < Len(postfix)
    /\ NextChar \notin {chDot, chBar, chStar}
    /\ LET r == makeChar(Arena, NextChar)
       IN  /\ stateStore' = r.ar.store /\ globalID' = r.ar.gid
           /\ st' = Append(st, r.frag)
    /\ pos' = pos + 1
    /\ BuildFrame

\* mutant: an operator that lacks its operands is skipped and the build goes on
BuildUnderflowSkipped ==
    /\ Building /\ pos < Len(postfix)
    /\ \/ NextChar \in {chDot, chBar} /\ Len(st) < 2
       \/ NextChar = chStar /\ Len(st) = 0
    /\ pos' = pos + 1
    /\ UNCHANGED <<stateStore, globalID, st>>
    /\ BuildFrame

\* "Stack Underflow on ." / "on |" / "on *": exit(1)
BuildUnderflow ==
    /\ Building /\ pos < Len(postfix)
    /\ \/ NextChar \in {chDot, chBar} /\ Len(st) < 2
       \/ NextChar = chStar /\ Len(st) = 0
    /\ alive' = FALSE
    /\ UNCHANGED <<pdaVars, lexVars, preVars, simVars>>

\* "Empty Regex" / "NFA Construction failed": exit(1)
BuildMalformed ==
    /\ Building /\ pos = Len(postfix)
    /\ Len(st) = 0 \/ Len(st) # 1
    /\ alive' = FALSE
    /\ UNCHANGED <<pdaVars, lexVars, preVars, simVars>>

\* regexToNFA returns st.top(); runPhase1 reads the state count
BuildReturn ==
    /\ Building /\ lpc = "build" /\ pos = Len(postfix)
    /\ Len(st) = 1
    /\ nfa' = StTop
    /\ stateCount' = getStateCount(Arena)
    /\ testNum' = 1
    /\ lpc' = "sim"
    /\ UNCHANGED <<stateStore, globalID, regexIn, postfix, pos, st, word, matched, output>>
    /\ UNCHANGED <<alive, pdaVars, preVars, simVars>>

\* one round of the test loop of runPhase1: stream >> word, simulateNFA
SimulateWord ==
    /\ alive /\ lpc = "sim" /\ testNum <= MaxTests
    /\ \E w \in Words :
          /\ word' = w
          /\ matched' = simulateNFA(stateStore, nfa, w)
          /\ nfaTrace' = IF showTrace /\ testNum = 1
                         THEN simulateNFAWithTrace(stateStore, nfa, w)
                         ELSE NoTrace
    /\ testNum' = testNum + 1
    /\ UNCHANGED <<stateStore, globalID, lpc, regexIn, postfix, pos, st, nfa,
                   stateCount, output, showTrace>>
    /\ UNCHANGED <<alive, pdaVars, preVars>>

\* the test words are exhausted: StateManager::clear(), return oss.str()
RunPhase1Return ==
    /\ alive /\ lpc = "sim"
    /\ stateStore' = clear(Arena).store
    /\ output' = "report"
    /\ lpc' = "idle"
    /\ postfix' = <<>> /\ pos' = 0 /\ st' = <<>> /\ nfa' = NoFragment
    /\ stateCount' = 0 /\ testNum' = 0 /\ word' = <<>> /\ matched' = FALSE
    /\ regexIn' = <<>>
    /\ nfaTrace' = NoTrace
    /\ UNCHANGED <<globalID, showTrace>>
    /\ UNCHANGED <<alive, pdaVars, preVars>>

\* the click on the trace option, between two runs
ToggleTrace ==
    /\ alive /\ lpc = "idle"
    /\ showTrace' = ~showTrace
    /\ UNCHANGED <<alive, pdaVars, lexVars, preVars, nfaTrace>>


----------------------------------------------------------------------------
(* main, PHASE 1 DEMO: one pattern, one test string, then the arena is      *)
(* cleared.  The pattern and the test string are literals of main; here     *)
(* they are drawn from the patterns of the documentation and of the sample  *)
(* buttons, and from bounded sets of test strings.                          *)

MaxMainWord == 5
MaxDigitWord == 3

PatAGPlus == <<40, 65, 124, 71, 41, 43>>        \* "(A|G)+"
PatDigits == <<91, 48, 45, 57, 93, 43>>         \* "[0-9]+"
PatAStar == <<65, 42>>                          \* "A*"

PatNotA == <<91, 94, 65, 93>>                   \* "[^A]"
PatNotHashToTilde == <<91, 94, 35, 45, 126, 93>> \* "[^#-~]", the complement of # .. ~

\* the three patterns above, two negated classes, the single literal "E", and
\* two malformed patterns: "*" and "()"
MainPatterns ==
    {PatAGPlus, PatDigits, PatAStar, PatNotA, PatNotHashToTilde,
     <<chEpsilon>>, <<chStar>>, <<chLParen, chRParen>>}

WordsOver(chars, maxLen) == UNION {[1..n -> chars] : n \in 0..maxLen}

\* strings over A, G, X, and strings over the digits, a and E
MainWords ==
    WordsOver({65, 71, 88}, MaxMainWord)
        \cup WordsOver(48..57 \cup {97, chEpsilon}, MaxDigitWord)

\* main up to the call of regexToNFA
MainPhase1(rawRegex) ==
    /\ regexIn' = rawRegex
    /\ postfix' = toPostfix(preprocessRegex(rawRegex))
    /\ pos' = 0
    /\ st' = <<>>
    /\ lpc' = "main-build"
    /\ UNCHANGED <<stateStore, globalID, nfa, stateCount, testNum, word, matched, output>>
    /\ UNCHANGED <<alive, pdaVars, preVars, simVars>>

CallMainPhase1 ==
    /\ alive /\ lpc = "idle"
    /\ \E rawRegex \in MainPatterns : MainPhase1(rawRegex)

\* regexToNFA returns st.top() to main
MainBuildReturn ==
    /\ Building /\ lpc = "main-build" /\ pos = Len(postfix)
    /\ Len(st) = 1
    /\ nfa' = StTop
    /\ lpc' = "main-sim"
    /\ UNCHANGED <<stateStore, globalID, regexIn, postfix, pos, st, stateCount, testNum,
                   word, matched, output>>
    /\ UNCHANGED <<alive, pdaVars, preVars, simVars>>

\* simulateNFA(nfa, testStr)
MainSimulate ==
    /\ alive /\ lpc = "main-sim"
    /\ \E testStr \in MainWords :
          /\ word' = testStr
          /\ matched' = simulateNFA(stateStore, nfa, testStr)
    /\ lpc' = "main-clear"
    /\ UNCHANGED <<stateStore, globalID, regexIn, postfix, pos, st, nfa, stateCount,
                   testNum, output>>
    /\ UNCHANGED <<alive, pdaVars, preVars, simVars>>

\* StateManager::clear() at the end of the demo
MainClear ==
    /\ alive /\ lpc = "main-clear"
    /\ stateStore' = clear(Arena).store
    /\ lpc' = "end"
    /\ UNCHANGED <<globalID, regexIn, postfix, pos, st, nfa, stateCount, testNum, word,
                   matched, output>>
    /\ UNCHANGED <<alive, pdaVars, preVars, simVars>>


----------------------------------------------------------------------------
(* A caller of preprocessRegex and toPostfix: it starts from a string and   *)
(* applies one of the two functions to the result of the previous call, as  *)
(* runPhase1 and main do with toPostfix(preprocessRegex(regex)).            *)

MaxCalls == 2

\* the string the next call is applied to
CallInput == IF Len(callLog) = 0 THEN callArg ELSE callLog[Len(callLog)].out

CallFrame == UNCHANGED <<alive, pdaVars, lexVars, callArg, simVars>>

CallPreprocessRegex ==
    /\ alive /\ Len(callLog) < MaxCalls
    /\ callLog' = Append(callLog, [fn |-> "preprocessRegex", arg |-> CallInput,
                                    out |-> preprocessRegex(CallInput)])
    /\ CallFrame

CallToPostfix ==
    /\ alive /\ Len(callLog) < MaxCalls
    /\ callLog' = Append(callLog, [fn |-> "toPostfix", arg |-> CallInput,
                                    out |-> toPostfix(CallInput)])
    /\ CallFrame

----------------------------------------------------------------------------

\* the state after construction, the string of the preprocessor's caller aside
InitState ==
    /\ alive = TRUE
    /\ adaptiveMap = EmptyMap
    /\ s = <<>>
    /\ tokens = <<>>
    /\ ptr = 0
    /\ pc = "idle"
    /\ result = "none"
    /\ trace = <<>>
    /\ map0 = EmptyMap
    /\ parsingTable = parsingTable0
    /\ affinityMatrix = affinityMatrix0
    /\ stateStore = <<>>
    /\ globalID = 0
    /\ lpc = "idle"
    /\ regexIn = <<>>
    /\ postfix = <<>>
    /\ pos = 0
    /\ st = <<>>
    /\ nfa = NoFragment
    /\ stateCount = 0
    /\ testNum = 0
    /\ word = <<>>
    /\ matched = FALSE
    /\ output = "none"
    /\ callLog = <<>>
    /\ showTrace = FALSE
    /\ nfaTrace = NoTrace

Init == InitState /\ callArg = <<>>

\* a caller of the preprocessor starts from any pattern within the bound, or
\* from the pattern of main
InitCalls == InitState /\ callArg \in Patterns \cup {PatAGPlus}

Next ==
    \/ CallParse
    \/ Accept
    \/ Match
    \/ MatchVia
    \/ Repair
    \/ NoProduction
    \/ Expand
    \/ Return

Spec == Init /\ [][Next]_vars

\* the lexical entry: runs of runPhase1
NextLex ==
    \/ ToggleTrace
    \/ RunPhase1Empty
    \/ CallRunPhase1
    \/ BuildConcat
    \/ BuildUnion
    \/ BuildStar
    \/ BuildChar
    \/ BuildUnderflow
    \/ BuildMalformed
    \/ BuildReturn
    \/ SimulateWord
    \/ RunPhase1Return

SpecLex == Init /\ [][NextLex]_vars

\* the lexical demo of main
NextMain ==
    \/ CallMainPhase1
    \/ BuildConcat
    \/ BuildUnion
    \/ BuildStar
    \/ BuildChar
    \/ BuildUnderflow
    \/ BuildMalformed
    \/ MainBuildReturn
    \/ MainSimulate
    \/ MainClear

SpecMain == Init /\ [][NextMain]_vars

\* the preprocessor's functions applied to bounded strings
NextCalls ==
    \/ CallPreprocessRegex
    \/ CallToPostfix

SpecCalls == InitCalls /\ [][NextCalls]_vars

----------------------------------------------------------------------------
(* Vocabulary of the properties *)

CallerTokens == SubSeq(tokens, 1, Len(tokens) - 1)

\* the current parse has ended: the loop was left, or the process exited in it
Ended == pc = "done" \/ (~alive /\ pc = "loop")

LastRec == trace[Len(trace)]

\* the affinity table as the specification gives it, in hundredths
SpecScore(expected, actual) ==
    CASE expected = "T" /\ actual = "U" -> 95
      [] expected = "C" /\ actual = "U" -> 60
      [] expected = "C" /\ actual = "A" -> 5
      [] OTHER -> 0

Complement(base) == IF base = "A" THEN "T" ELSE "C"

\* w . v with w over {A,G}, |v| = |w|, v read against the mirrored complement of w
HairpinForm(toks) ==
    /\ Len(toks) % 2 = 1
    /\ LET n == (Len(toks) - 1) \div 2
       IN  /\ toks[n + 1] = "."
           /\ \A i \in 1..n : toks[i] \in {"A", "G"}
           /\ \A i \in 1..n :
                 LET expected == Complement(toks[n + 1 - i])
                     actual == toks[n + 1 + i]
                 IN  actual = expected \/ SpecScore(expected, actual) > 50

----------------------------------------------------------------------------
(* C1: starting from an empty adaptive map, parse accepts a token sequence  *)
(* if and only if it has the form w . v (v the mirrored complement of w up  *)
(* to substitutions of affinity > 0.5); [A,G,.,C,U] is accepted and leaves  *)
(* U -> T in the adaptive map.                                              *)
C1_AcceptsExactlyHairpins ==
    (Ended /\ map0 = EmptyMap) =>
        /\ (result = "accept") <=> HairpinForm(CallerTokens)
        /\ CallerTokens = <<"A", "G", ".", "C", "U">> =>
              adaptiveMap = ("U" :> "T")

(* C2: parsing [A,G,.,C,A] ends in an affinity rejection triggered by the   *)
(* pair (expected C, actual A) with score 0.05.                             *)
C2_RejectedAtCA ==
    (Ended /\ CallerTokens = <<"A", "G", ".", "C", "A">>) =>
        /\ result = "affinity"
        /\ LastRec.top = "C" /\ LastRec.la = "A" /\ LastRec.score = 5

(* C2 as amended: parsing [A,G,.,C,A] ends in an affinity rejection, and    *)
(* the pair that triggers it is (expected T, actual A), which has no entry  *)
(* in the affinity matrix and scores 0.0.                                   *)
C2_RejectedAtTA ==
    (Ended /\ CallerTokens = <<"A", "G", ".", "C", "A">>) =>
        /\ result = "affinity"
        /\ LastRec.top = "T" /\ LastRec.la = "A" /\ LastRec.score = 0

C2_Witness ==
    /\ Ended /\ CallerTokens = <<"A", "G", ".", "C", "A">>
    /\ ~alive /\ result = "affinity"

(* C3: on a terminal mismatch with no learned equivalence the outcome       *)
(* depends only on the affinity score (missing entry = 0.0): above 0.5 the  *)
(* parser records adaptiveMap[lookahead] = top and the very next iteration  *)
(* pops that top and advances the read pointer by one; at 0.5 or below the  *)
(* parse is rejected and nothing is recorded.                               *)
C3_Mismatch ==
    /\ alive /\ pc = "loop" /\ Len(s) > 0
    /\ Top # "S" /\ Top # Lookahead
    /\ ~(Lookahead \in DOMAIN adaptiveMap /\ adaptiveMap[Lookahead] = Top)

C3_JustRepaired ==
    /\ alive /\ pc = "loop" /\ Len(trace) > 0
    /\ LastRec.action \in {"ALERT high", "ALERT moderate"}

C3_RepairPolicy ==
    [][ /\ C3_Mismatch =>
            IF SpecScore(Top, Lookahead) > 50
            THEN /\ adaptiveMap' = [x \in DOMAIN adaptiveMap \cup {Lookahead} |->
                                       IF x = Lookahead THEN Top ELSE adaptiveMap[x]]
                 /\ s' = s /\ ptr' = ptr /\ alive' /\ pc' = "loop"
                 /\ trace'[Len(trace')].score = SpecScore(Top, Lookahead)
            ELSE /\ result' = "affinity"
                 /\ adaptiveMap' = adaptiveMap
                 /\ s' = s /\ ptr' = ptr
        /\ C3_JustRepaired =>
            /\ LastRec.top = Top /\ LastRec.la = Lookahead
            /\ s' = SubSeq(s, 1, Len(s) - 1)
            /\ ptr' = ptr + 1
            /\ adaptiveMap' = adaptiveMap
      ]_vars

C3_Witness ==
    /\ Len(trace) >= 2
    /\ trace[Len(trace) - 1].action = "ALERT moderate"
    /\ LastRec.action = "Match via"

(* C4: a low-affinity mismatch fails only that parse and returns to the     *)
(* caller; the hosting process is not terminated.                           *)
C4_RejectionKeepsProcess ==
    result = "affinity" => (alive /\ pc = "done")

(* C5: a construction error of the automaton builder (operator stack        *)
(* underflow, empty or leftover fragment stack) is returned to runPhase1 as *)
(* an error value: the process keeps running, runPhase1 reports an error    *)
(* string and is ready for the next pattern.                                *)
C5_ConstructionError ==
    /\ Building
    /\ \/ /\ pos < Len(postfix)
          /\ \/ NextChar \in {chDot, chBar} /\ Len(st) < 2
             \/ NextChar = chStar /\ Len(st) = 0
       \/ pos = Len(postfix) /\ Len(st) # 1

C5_ConstructionErrorReported ==
    [][ C5_ConstructionError =>
            /\ alive'
            /\ lpc' = "idle"
            /\ output' \notin {"none", "report"}
      ]_vars

(* C6: a nonterminal on top with no table entry for the lookahead halts the *)
(* parse at once in a structural error, distinct from the affinity          *)
(* rejection: no production is applied, the affinity matrix is not          *)
(* consulted, and stack, read pointer and adaptive map stay as they were.   *)
C6_NoEntry ==
    /\ alive /\ pc = "loop" /\ Len(s) > 0
    /\ Top = "S" /\ Lookahead \notin {"A", "G", "."}

C6_StructuralError ==
    [][ C6_NoEntry =>
            /\ pc' = "done" /\ result' = "structural" /\ alive'
            /\ s' = s /\ ptr' = ptr /\ adaptiveMap' = adaptiveMap
            /\ Len(trace') = Len(trace) + 1
            /\ trace'[Len(trace')].action = "ERROR: Invalid Start"
      ]_vars

C6_Witness ==
    /\ pc = "done" /\ result = "structural"
    /\ Len(trace) > 1

(* C7: every parse ends in exactly one of accept, affinity-reject or        *)
(* structural-reject, identified by its last trace record; the 'Unknown     *)
(* State' branch is never taken and the stack never runs empty.             *)
C7_ThreeOutcomes ==
    /\ result \notin {"unknown", "fellout"}
    /\ pc = "loop" => Len(s) > 0
    /\ (alive /\ pc = "loop") =>
          /\ result = "none"
          /\ \A i \in 1..Len(trace) :
                trace[i].action \notin
                   {"STRUCTURE STABLE", "ALERT low", "ERROR: Invalid Start",
                    "Error: Unknown State"}
    /\ Ended =>
          /\ Len(trace) > 0
          /\ \/ result = "accept" /\ LastRec.action = "STRUCTURE STABLE"
             \/ result = "affinity" /\ LastRec.action = "ALERT low"
             \/ result = "structural" /\ LastRec.action = "ERROR: Invalid Start"
          /\ \A i \in 1..(Len(trace) - 1) :
                trace[i].action \notin
                   {"STRUCTURE STABLE", "ALERT low", "ERROR: Invalid Start",
                    "Error: Unknown State"}

C7_Witness ==
    pc = "done" /\ result = "accept" /\ Len(trace) > 3

(* C8: the parser loop terminates for every token sequence and every        *)
(* starting adaptive map: the number of iterations is at most 2n + 1 for n  *)
(* caller tokens, and an unfinished loop always has a next iteration.       *)
C8_IterationBound ==
    pc # "idle" =>
        /\ Len(trace) <= 2 * Len(CallerTokens) + 1
        /\ (alive /\ pc = "loop") =>
              ENABLED (Accept \/ Match \/ MatchVia \/ Repair \/ NoProduction \/ Expand)

C8_Witness ==
    /\ pc = "done" /\ map0 # EmptyMap
    /\ Len(CallerTokens) >= 3
    /\ Len(trace) = 2 * Len(CallerTokens) + 1
    /\ \E i \in 1..Len(trace) : trace[i].action = "ALERT high"

(* C9: every iteration that does not end the parse changes the stack or the *)
(* read pointer.                                                            *)
C9_EveryIterationAdvances ==
    [][ (alive /\ pc = "loop" /\ alive' /\ pc' = "loop") =>
            (s' # s \/ ptr' # ptr) ]_vars

(* C9 as amended: every iteration that does not end the parse changes the   *)
(* stack or the read pointer, except a repair with affinity > 0.5, which    *)
(* leaves both unchanged, records adaptiveMap[lookahead] = top, and is      *)
(* followed at once by the shift of that token.                             *)
C9_AdvancesOrLearns ==
    [][ /\ (alive /\ pc = "loop" /\ alive' /\ pc' = "loop") =>
            \/ s' # s
            \/ ptr' # ptr
            \/ /\ SpecScore(Top, Lookahead) > 50
               /\ adaptiveMap' # adaptiveMap
               /\ Lookahead \in DOMAIN adaptiveMap'
               /\ adaptiveMap'[Lookahead] = Top
        /\ C3_JustRepaired => (Len(s') < Len(s) /\ ptr' = ptr + 1)
      ]_vars

C9_Witness ==
    /\ alive /\ pc = "loop" /\ Len(trace) > 0
    /\ LastRec.action = "ALERT high"
    /\ s[Len(s)] = "T" /\ tokens[ptr + 1] = "U"

(* C10: at the start of every call to parse the adaptive map is empty.      *)
C10_MapEmptyAtParseStart ==
    pc # "idle" => map0 = EmptyMap

(* C11: on a terminal mismatch the adaptive map is consulted before the    *)
(* affinity matrix: while adaptiveMap[lookahead] = top holds, a step whose  *)
(* stack top is that terminal and whose lookahead is that token shifts via  *)
(* the map (pop, advance) without a repair decision or an affinity query.   *)
C11_LearnedMismatch ==
    /\ alive /\ pc = "loop" /\ Len(s) > 0
    /\ Top # "S" /\ Top # Lookahead
    /\ Lookahead \in DOMAIN adaptiveMap /\ adaptiveMap[Lookahead] = Top

C11_MapBeforeMatrix ==
    [][ C11_LearnedMismatch =>
            /\ s' = SubSeq(s, 1, Len(s) - 1)
            /\ ptr' = ptr + 1
            /\ adaptiveMap' = adaptiveMap
            /\ alive' /\ result' \in {"none", "fellout"}
            /\ Len(trace') = Len(trace) + 1
            /\ trace'[Len(trace')] = Rec("Match via", Top, Lookahead, -1)
      ]_vars

\* a shift via an equivalence learned in an earlier parse: no repair in this one
C11_Witness ==
    /\ map0 # EmptyMap /\ Len(trace) > 0
    /\ LastRec.action = "Match via"
    /\ \A i \in 1..Len(trace) :
          trace[i].action \notin {"ALERT high", "ALERT moderate", "ALERT low"}

(* Vocabulary of the claims about main's lexical demo *)

\* the demo has simulated its test string on the automaton it built
MainTested == lpc \in {"main-clear", "end"}

OnlyOver(w, chars) == \A i \in 1..Len(w) : w[i] \in chars

(* C12: the automaton built from (A|G)+ accepts every non-empty string over *)
(* {A,G}, AGAGA included, and rejects the empty string and every string     *)
(* over {A,G,X} that contains X, AGAGX included.                            *)
C12_AGPlusLanguage ==
    (MainTested /\ regexIn = PatAGPlus /\ OnlyOver(word, {65, 71, 88})) =>
        (matched <=> (Len(word) > 0 /\ OnlyOver(word, {65, 71})))

C12_Witness ==
    /\ lpc = "end" /\ regexIn = PatAGPlus
    /\ word = <<65, 71, 65, 71, 65>> /\ matched

(* C13: the automaton built from [0-9]+ accepts every non-empty string of   *)
(* decimal digits, 123 included, and rejects the empty string and every     *)
(* string that contains a non-digit, 12a included.                          *)
C13_DigitsLanguage ==
    (MainTested /\ regexIn = PatDigits) =>
        (matched <=> (Len(word) > 0 /\ OnlyOver(word, 48..57)))

C13_Witness ==
    /\ lpc = "end" /\ regexIn = PatDigits
    /\ word = <<49, 50, 51>> /\ matched

(* C14: the automaton built from A* accepts the empty sequence and every    *)
(* sequence that consists only of the symbol A.                             *)
C14_AStarAcceptsAs ==
    (MainTested /\ regexIn = PatAStar /\ OnlyOver(word, {65})) => matched

C14_Witness ==
    /\ lpc = "end" /\ regexIn = PatAStar
    /\ word = <<>> /\ matched

(* Vocabulary of the claims about preprocessRegex and toPostfix *)

\* the k-th call of the caller was a call of fn
Called(k, fn) == Len(callLog) >= k /\ callLog[k].fn = fn

IsLiteral(c) == c \notin {chBar, chStar, chPlus, chLParen, chRParen, chDot}

\* "X+" for a single literal X
LiteralPlus(str) == Len(str) = 2 /\ IsLiteral(str[1]) /\ str[2] = chPlus

RemoveAt(str, i) == SubSeq(str, 1, i - 1) \o SubSeq(str, i + 1, Len(str))

\* the patterns of the grammar
\*   alt ::= cat | alt '|' cat      cat ::= rep | cat rep
\*   rep ::= atom | rep '*' | rep '+'      atom ::= literal | '(' alt ')'
\* read on str[lo..hi]
RECURSIVE IsAlt(_, _, _)
RECURSIVE IsCat(_, _, _)
RECURSIVE IsRep(_, _, _)
RECURSIVE IsAtom(_, _, _)
IsAlt(str, lo, hi) ==
    \/ IsCat(str, lo, hi)
    \/ \E k \in (lo + 1)..(hi - 1) :
          str[k] = chBar /\ IsAlt(str, lo, k - 1) /\ IsCat(str, k + 1, hi)

IsCat(str, lo, hi) ==
    \/ IsRep(str, lo, hi)
    \/ \E k \in lo..(hi - 1) : IsCat(str, lo, k) /\ IsRep(str, k + 1, hi)

IsRep(str, lo, hi) ==
    \/ IsAtom(str, lo, hi)
    \/ hi > lo /\ str[hi] \in {chStar, chPlus} /\ IsRep(str, lo, hi - 1)

IsAtom(str, lo, hi) ==
    \/ lo = hi /\ IsLiteral(str[lo])
    \/ hi >= lo + 2 /\ str[lo] = chLParen /\ str[hi] = chRParen
                     /\ IsAlt(str, lo + 1, hi - 1)

\* literals, |, *, + and balanced grouping, every operator having its operands
WellFormed(str) == Len(str) > 0 /\ IsAlt(str, 1, Len(str))

(* C15: for a single literal X, preprocess("X+") returns exactly "XX*", and *)
(* toPostfix("AA*") returns "AA*".                                          *)
C15_PlusGivesXXStar ==
    /\ (Called(1, "preprocessRegex") /\ LiteralPlus(callArg)) =>
           callLog[1].out = <<callArg[1], callArg[1], chStar>>
    /\ (Called(1, "toPostfix") /\ callArg = <<65, 65, chStar>>) =>
           callLog[1].out = <<65, 65, chStar>>

(* C15 as amended: for a single literal X, preprocess("X+") returns         *)
(* "X.X*", the expansion XX* with the concatenation marker between the two  *)
(* operands; toPostfix of that string returns "XX*."; and toPostfix("AA*")  *)
(* returns "AA*".                                                           *)
C15_PlusGivesXDotXStar ==
    /\ (Called(1, "preprocessRegex") /\ LiteralPlus(callArg)) =>
           /\ callLog[1].out = <<callArg[1], chDot, callArg[1], chStar>>
           /\ Called(2, "toPostfix") =>
                  callLog[2].out = <<callArg[1], callArg[1], chStar, chDot>>
    /\ (Called(1, "toPostfix") /\ callArg = <<65, 65, chStar>>) =>
           callLog[1].out = <<65, 65, chStar>>

C15_Witness ==
    /\ callArg = <<65, chPlus>>
    /\ Called(1, "preprocessRegex") /\ Called(2, "toPostfix")
    /\ callLog[2].out = <<65, 65, chStar, chDot>>

(* C16: preprocess(preprocess(p)) = preprocess(p) for every pattern built   *)
(* from literals, |, *, + and grouping.                                     *)
C16_PreprocessIdempotent ==
    (WellFormed(callArg) /\ Called(1, "preprocessRegex")
                        /\ Called(2, "preprocessRegex")) =>
        callLog[2].out = callLog[1].out

(* C17: in preprocess a + without a preceding operand (at the start of the  *)
(* pattern, or directly after ( or |) is dropped: the output equals that of *)
(* the same pattern with that + removed.                                    *)
C17_OrphanPlusDropped ==
    Called(1, "preprocessRegex") =>
        \A i \in 1..Len(callArg) :
            (callArg[i] = chPlus /\ (i = 1 \/ callArg[i - 1] \in {chLParen, chBar})) =>
                callLog[1].out = preprocessRegex(RemoveAt(callArg, i))

(* C18: for every input string, unmatched parentheses included, the output  *)
(* of toPostfix contains neither ( nor ).                                   *)
C18_NoParenInPostfix ==
    \A k \in 1..Len(callLog) :
        callLog[k].fn = "toPostfix" =>
            \A j \in 1..Len(callLog[k].out) :
                callLog[k].out[j] \notin {chLParen, chRParen}

(* C19: regexToNFA stops at the first operator that finds fewer fragments  *)
(* on its stack than it needs, and fails when the postfix is exhausted with *)
(* zero or more than one fragment: no fragment is returned and no further   *)
(* postfix symbol is processed.                                             *)
C19_StopsAtConstructionError ==
    [][ /\ C5_ConstructionError =>
            /\ ~alive'
            /\ pos' = pos /\ st' = st /\ nfa' = nfa /\ lpc' = lpc
            /\ stateStore' = stateStore /\ globalID' = globalID
        /\ (Building /\ (pos' # pos \/ nfa' # nfa)) => ~C5_ConstructionError
      ]_vars

C19_Witness ==
    /\ ~alive /\ lpc = "build"
    /\ 0 < pos /\ pos + 1 < Len(postfix)
    /\ Len(st) = 1 /\ nfa = NoFragment

(* C20: for every well-formed pattern the postfix toPostfix(preprocess(p))  *)
(* drives regexToNFA through without stack underflow and ends with exactly  *)
(* one fragment on the stack.                                               *)
C20_WellFormedBuilds ==
    (WellFormed(regexIn) /\ lpc \in {"build", "sim"}) =>
        /\ alive
        /\ ~C5_ConstructionError
        /\ (lpc = "sim" \/ pos = Len(postfix)) => Len(st) = 1

C20_Witness ==
    /\ lpc = "sim" /\ regexIn = <<65, chBar, 71, chPlus>>
    /\ Len(st) = 1 /\ nfa = st[1]

(* Vocabulary of the claims about the arena, the builder and the simulator *)

\* the states the arena owns, by address; the address order is the creation order
Owned == 1..Len(stateStore)

(* C21: the ids of the states an arena owns strictly increase in creation   *)
(* order: two distinct states have different ids, and the one created later *)
(* has the larger id, after any sequence of create calls and builder        *)
(* operations.                                                              *)
C21_IdsIncrease ==
    \A p, q \in Owned : p < q => stateStore[p].id < stateStore[q].id

\* A|G* has been built: eight states, made by four helpers
C21_Witness ==
    /\ lpc = "build" /\ pos = Len(postfix) /\ postfix = <<65, 71, chStar, chBar>>
    /\ Len(stateStore) = 8

\* the states p has a transition to, on any key
Successors(store, p) ==
    UNION { { store[p].transitions[c][k] : k \in 1..Len(store[p].transitions[c]) } :
            c \in DOMAIN store[p].transitions }

\* the states reachable from seen, frontier being the ones not expanded yet
RECURSIVE ReachFrom(_, _, _)
ReachFrom(store, frontier, seen) ==
    IF frontier = {} THEN seen
    ELSE LET new == UNION { Successors(store, p) : p \in frontier } \ seen
         IN  ReachFrom(store, new, seen \cup new)

\* the states reachable from p by zero or more transitions, literal or epsilon
Reachable(store, p) == ReachFrom(store, {p}, {p})

FinalsReachable(store, fragment) ==
    \A k \in 1..Len(fragment.finals) :
        fragment.finals[k] \in Reachable(store, fragment.start)

(* C22: every fragment on the work stack of regexToNFA, and the fragment it *)
(* returns, has each of its final states reachable from its start state by  *)
(* zero or more transitions.                                                *)
C22_FinalsReachable ==
    /\ Building => \A k \in 1..Len(st) : FinalsReachable(stateStore, st[k])
    /\ (alive /\ lpc = "sim") => FinalsReachable(stateStore, nfa)

\* the concatenation AG has been returned; its final is the end state of G
C22_Witness ==
    /\ lpc = "sim" /\ postfix = <<65, 71, chDot>>
    /\ nfa.start = 1 /\ nfa.finals = <<4>>

\* runPhase1 has just simulated its first test word with the trace option on
TracedFirstWord == alive /\ lpc = "sim" /\ showTrace /\ testNum = 2

\* the state sets a trace shows: after step 0 and after each step
TraceSets(tr) == <<tr.initial>> \o [k \in 1..Len(tr.steps) |-> tr.steps[k].after]

CharStart(store, p) ==
    /\ Cardinality(DOMAIN store[p].transitions) = 1
    /\ \A c \in DOMAIN store[p].transitions :
          store[p].transitions[c] = <<p + 1>>
    /\ p % 2 = 1

\* the successors of p on the input symbol c
SymbolSuccessors(store, p, c) ==
    IF CharStart(store, p) /\ c \in DOMAIN store[p].transitions
    THEN {p + 1} ELSE {}

\* the targets of the epsilon transitions of p
EpsilonSuccessors(store, p) ==
    IF ~CharStart(store, p) /\ chEpsilon \in DOMAIN store[p].transitions
    THEN { store[p].transitions[chEpsilon][k] :
             k \in 1..Len(store[p].transitions[chEpsilon]) }
    ELSE {}

RECURSIVE EpsilonReachFrom(_, _, _)
EpsilonReachFrom(store, frontier, seen) ==
    IF frontier = {} THEN seen
    ELSE LET new == UNION { EpsilonSuccessors(store, p) : p \in frontier } \ seen
         IN  EpsilonReachFrom(store, new, seen \cup new)

\* the states reachable from a state of set by zero or more epsilon transitions
EpsilonClosureOf(store, set) == EpsilonReachFrom(store, set, set)

\* the state set after input[i..], the empty set staying empty
RECURSIVE SubsetRun(_, _, _, _)
SubsetRun(store, set, input, i) ==
    IF i > Len(input) \/ set = {} THEN set
    ELSE SubsetRun(store,
                   EpsilonClosureOf(store,
                       UNION { SymbolSuccessors(store, p, input[i]) : p \in set }),
                   input, i + 1)

SubsetAccepts(store, fragment, input) ==
    \E q \in SubsetRun(store, EpsilonClosureOf(store, {fragment.start}), input, 1) :
        \E k \in 1..Len(fragment.finals) : q = fragment.finals[k]

\* main has simulated its test string and the arena still holds the automaton
MainSimulated == alive /\ lpc = "main-clear"

(* C25: simulateNFA returns true if and only if the state set obtained from *)
(* the epsilon closure of the start state by replacing it, for each input   *)
(* symbol in order, by the union of the epsilon closures of the successors  *)
(* on that symbol, contains a final state after the last symbol; once the   *)
(* set is empty the result is false whatever input remains.                 *)
C25_SimulatorIsSubsetRun ==
    MainSimulated => (matched <=> SubsetAccepts(stateStore, nfa, word))

(* C26: getEpsilonClosure called on a state with an empty visited set adds  *)
(* to the closure exactly the states reachable from it by zero or more      *)
(* epsilon transitions, itself included and no state reachable only through *)
(* a literal transition.                                                    *)
C26_ClosureIsEpsilonReach ==
    MainSimulated =>
        \A p \in Owned :
            getEpsilonClosure(stateStore, p, <<{}, {}>>)[2]
                = EpsilonClosureOf(stateStore, {p})

(* Vocabulary of the claims about annotated infix patterns *)

\* the annotated patterns of the grammar
\*   alt ::= cat | alt '|' cat      cat ::= rep | cat '.' rep
\*   rep ::= atom | rep '*'         atom ::= literal | '(' alt ')'
\* read on str[lo..hi]
RECURSIVE IsAnnAlt(_, _, _)
RECURSIVE IsAnnCat(_, _, _)
RECURSIVE IsAnnRep(_, _, _)
RECURSIVE IsAnnAtom(_, _, _)
IsAnnAlt(str, lo, hi) ==
    \/ IsAnnCat(str, lo, hi)
    \/ \E k \in (lo + 1)..(hi - 1) :
          str[k] = chBar /\ IsAnnAlt(str, lo, k - 1) /\ IsAnnCat(str, k + 1, hi)

IsAnnCat(str, lo, hi) ==
    \/ IsAnnRep(str, lo, hi)
    \/ \E k \in (lo + 1)..(hi - 1) :
          str[k] = chDot /\ IsAnnCat(str, lo, k - 1) /\ IsAnnRep(str, k + 1, hi)

IsAnnRep(str, lo, hi) ==
    \/ IsAnnAtom(str, lo, hi)
    \/ hi > lo /\ str[hi] = chStar /\ IsAnnRep(str, lo, hi - 1)

IsAnnAtom(str, lo, hi) ==
    \/ lo = hi /\ IsLiteral(str[lo])
    \/ hi >= lo + 2 /\ str[lo] = chLParen /\ str[hi] = chRParen
                     /\ IsAnnAlt(str, lo + 1, hi - 1)

\* explicit concatenation markers, balanced parentheses, every operator
\* having its operands
AnnotatedWellFormed(str) == Len(str) > 0 /\ IsAnnAlt(str, 1, Len(str))

\* the nesting depth of position k within str[lo..hi]
ParenDepth(str, lo, k) ==
    Cardinality({ j \in lo..(k - 1) : str[j] = chLParen })
        - Cardinality({ j \in lo..(k - 1) : str[j] = chRParen })

\* the last position of operator op outside parentheses in str[lo..hi], or 0
LastTopLevel(str, lo, hi, op) ==
    LET at == { k \in lo..hi : str[k] = op /\ ParenDepth(str, lo, k) = 0 }
    IN  IF at = {} THEN 0 ELSE CHOOSE k \in at : \A j \in at : j <= k

Parenthesised(left, op, right) == <<chLParen>> \o left \o <<op>> \o right \o <<chRParen>>

\* the expression tree of a well-formed annotated pattern, written with one
\* pair of parentheses per operator: | binds weakest, then the marker, then
\* *, and operators of equal precedence associate to the left
RECURSIVE TreeOf(_, _, _)
TreeOf(str, lo, hi) ==
    LET bar == LastTopLevel(str, lo, hi, chBar)
        dot == LastTopLevel(str, lo, hi, chDot)
    IN  IF bar # 0
        THEN Parenthesised(TreeOf(str, lo, bar - 1), chBar, TreeOf(str, bar + 1, hi))
        ELSE IF dot # 0
        THEN Parenthesised(TreeOf(str, lo, dot - 1), chDot, TreeOf(str, dot + 1, hi))
        ELSE IF str[hi] = chStar
        THEN Parenthesised(TreeOf(str, lo, hi - 1), chStar, <<>>)
        ELSE IF lo = hi THEN <<str[lo]>>
        ELSE TreeOf(str, lo + 1, hi - 1)

\* a postfix string evaluated with a stack of trees; ok is FALSE once an
\* operator lacks an operand
RECURSIVE EvalPostfix(_, _, _)
EvalPostfix(pfx, i, r) ==
    IF i > Len(pfx) \/ ~r.ok THEN r
    ELSE LET c == pfx[i]
             n == Len(r.stack)
         IN  IF c = chDot \/ c = chBar
             THEN IF n < 2 THEN [ok |-> FALSE, stack |-> r.stack]
                  ELSE EvalPostfix(pfx, i + 1,
                         [ok |-> TRUE,
                          stack |-> Append(SubSeq(r.stack, 1, n - 2),
                                           Parenthesised(r.stack[n - 1], c, r.stack[n]))])
             ELSE IF c = chStar
             THEN IF n < 1 THEN [ok |-> FALSE, stack |-> r.stack]
                  ELSE EvalPostfix(pfx, i + 1,
                         [ok |-> TRUE,
                          stack |-> Append(SubSeq(r.stack, 1, n - 1),
                                           Parenthesised(r.stack[n], c, <<>>))])
             ELSE EvalPostfix(pfx, i + 1, [ok |-> TRUE, stack |-> Append(r.stack, <<c>>)])

\* the operands of a string, in order
Operands(str) == SelectSeq(str, IsLiteral)

(* C27: for every well-formed annotated infix pattern, toPostfix returns    *)
(* the postfix form of the expression read with precedence * over           *)
(* concatenation over | and left association: the operands keep their       *)
(* order, and evaluating the postfix with a stack rebuilds the expression   *)
(* tree of the pattern.                                                     *)
C27_PostfixOfAnnotated ==
    \A k \in 1..Len(callLog) :
        (callLog[k].fn = "toPostfix" /\ AnnotatedWellFormed(callLog[k].arg)) =>
            /\ Operands(callLog[k].out) = Operands(callLog[k].arg)
            /\ EvalPostfix(callLog[k].out, 1, [ok |-> TRUE, stack |-> <<>>])
                  = [ok |-> TRUE,
                     stack |-> <<TreeOf(callLog[k].arg, 1, Len(callLog[k].arg))>>]

\* AG|A, annotated A.G|A: the marker binds tighter than |
C27_Witness ==
    /\ callArg = <<65, 71, chBar, 65>>
    /\ Called(1, "preprocessRegex") /\ Called(2, "toPostfix")
    /\ AnnotatedWellFormed(callLog[2].arg)
    /\ callLog[2].out = <<65, 71, chDot, 65, chBar>>

(* Vocabulary of the claim about the last pass of preprocessRegex *)

\* the string the last pass of preprocessRegex(regex) starts from
ExpandedOf(regex) ==
    LET withClasses == ExpandClasses(regex, 1, <<>>)
    IN  ExpandPlus(withClasses, <<>>, 1, Len(withClasses))

\* left = str[j] can end an operand and right = str[j + 1] can start one
MarkerGap(str, j) ==
    /\ j + 1 <= Len(str)
    /\ str[j] \notin {chBar, chLParen}
    /\ str[j + 1] \notin {chBar, chStar, chRParen}

\* the number of such gaps before position i
GapsBefore(str, i) == Cardinality({ j \in 1..(i - 1) : MarkerGap(str, j) })

IsNegatedClass(regex) ==
    /\ Len(regex) >= 3
    /\ regex[1] = chLBracket /\ regex[2] = chCaret /\ regex[Len(regex)] = chRBracket
    /\ \A i \in 3..(Len(regex) - 1) : regex[i] # chRBracket

\* the members listed in the class "[^...]"
NegatedMembers(regex) == ClassMembers(SubSeq(regex, 3, Len(regex) - 1), 1, <<>>)

(* C29: the automaton built from a pattern consisting of one negated class  *)
(* [^...] is built, and accepts exactly the one-character strings whose     *)
(* character has a code from 33 to 126 and is not a member of the class,    *)
(* every member of the expansion being treated as a literal.                *)
C29_NegatedClassComplement ==
    (IsNegatedClass(regexIn) /\ lpc \in {"main-build", "main-sim", "main-clear", "end"}) =>
        /\ alive
        /\ MainTested =>
              (matched <=> /\ Len(word) = 1
                           /\ word[1] \in FirstPrintable..LastPrintable
                           /\ ~Contains(NegatedMembers(regexIn), word[1]))

(* Vocabulary of the claim about the expand step *)

\* this step of parse printed an "Expand" line
ExpandStep ==
    /\ Len(trace') = Len(trace) + 1
    /\ trace'[Len(trace')].action = "Expand"

(* C30: an expand step replaces the nonterminal on top of the stack by the  *)
(* right-hand side of the production the parsing table selects for (top,    *)
(* lookahead), pushed in reverse so that the leftmost right-hand-side       *)
(* symbol is the new top; the rest of the stack, the read pointer and the   *)
(* adaptive map are unchanged, and the selected production has the popped   *)
(* nonterminal as its left-hand side.                                       *)
C30_ExpandFrame ==
    [][ExpandStep =>
          /\ Len(s) > 0
          /\ s[Len(s)] \in DOMAIN parsingTable
          /\ tokens[ptr + 1] \in DOMAIN parsingTable[s[Len(s)]]
          /\ LET p == grammar[parsingTable[s[Len(s)]][tokens[ptr + 1]] + 1]
             IN  /\ p.lhs = s[Len(s)]
                 /\ Len(s') = Len(s) - 1 + Len(p.rhs)
                 /\ \A i \in 1..(Len(s) - 1) : s'[i] = s[i]
                 /\ \A j \in 1..Len(p.rhs) : s'[Len(s') + 1 - j] = p.rhs[j]
          /\ ptr' = ptr
          /\ tokens' = tokens
          /\ adaptiveMap' = adaptiveMap]_vars

\* S was expanded by S -> G S C under an expansion by S -> A S T, with a
\* learned equivalence in the adaptive map
C30_Witness ==
    /\ pc = "loop" /\ Len(trace) > 0 /\ LastRec.action = "Expand"
    /\ s = <<"$", "T", "C", "S", "G">>
    /\ ptr = 1
    /\ adaptiveMap # EmptyMap

\* the actions of the records printed so far by the current parse
TraceActions == {trace[i].action : i \in 1..Len(trace)}

\* C31: during parse neither the parsing table nor the affinity matrix is
\* modified (no lookup inserts a default entry; the grammar is a vector that
\* parse only indexes), and the adaptive map is modified only by an iteration
\* that takes the repair branch with an affinity above 0.5: exact-match
\* shifts, shifts via a learned equivalence, expansions, acceptance and
\* structural errors leave it as it was.
C31_ParseFrame ==
    [][ /\ parsingTable' = parsingTable
        /\ affinityMatrix' = affinityMatrix
        /\ (adaptiveMap' # adaptiveMap =>
               /\ InLoop
               /\ Branch(Top, Lookahead, adaptiveMap) = "repair"
               /\ Affinity(Top, Lookahead) > LowThreshold) ]_vars

\* a parse that expanded, shifted exactly, repaired, shifted via the learned
\* equivalence and accepted, the tables being those of the constructor
C31_Witness ==
    /\ result = "accept"
    /\ {"Expand", "Match", "ALERT high", "Match via"} \subseteq TraceActions
    /\ adaptiveMap # map0
    /\ parsingTable = parsingTable0
    /\ affinityMatrix = affinityMatrix0

\* the number of states Thompson's construction allocates for a postfix
\* string: two for each literal, union and star, none for a concatenation
RECURSIVE AllocatedFor(_)
AllocatedFor(post) ==
    IF post = <<>> THEN 0
    ELSE (IF Head(post) = chDot THEN 0 ELSE 2) + AllocatedFor(Tail(post))

\* runPhase1 is between its first clear() and its return
InRun == lpc \in {"build", "sim"}

\* C32: over any sequence of runs of runPhase1 the arena holds no state when
\* a compilation begins, no state is released between the build and the last
\* simulation of the run (the simulations leave the arena as it is), and the
\* arena is emptied after the last simulation; so every state a simulation
\* can reach from the fragment is owned by the arena, and the state count of
\* the run is the number of states allocated for that run's pattern alone.
C32_ArenaLifecycle ==
    [][ /\ (lpc = "idle" /\ lpc' = "build") =>
               stateStore' = <<>> /\ globalID' = 0
        /\ (InRun /\ lpc' \in {"build", "sim"}) =>
               Len(stateStore') >= Len(stateStore)
        /\ (lpc = "sim" /\ lpc' = "sim") => stateStore' = stateStore
        /\ (lpc = "sim" /\ lpc' = "idle") => stateStore' = <<>>
        /\ lpc = "sim" =>
               /\ Reachable(stateStore, nfa.start) \subseteq Owned
               /\ stateCount = Len(stateStore)
               /\ stateCount = AllocatedFor(postfix) ]_vars

\* the last simulation of a run on A|G* has been made on an arena of eight
\* states
C32_Witness ==
    /\ alive /\ lpc = "sim" /\ testNum = MaxTests + 1
    /\ postfix = <<65, 71, chStar, chBar>>
    /\ stateCount = 8 /\ Len(stateStore) = 8
    /\ matched

\* C33: the epsilon symbol is distinct from every literal: an input is
\* accepted only along literal transitions that consume equal input symbols
\* and epsilon transitions that consume none; in particular the automaton
\* for the pattern E rejects the empty string and the automaton for A*
\* rejects the input E.
C33_EpsilonDistinctFromLiterals ==
    MainSimulated =>
        /\ matched => SubsetAccepts(stateStore, nfa, word)
        /\ (regexIn = <<chEpsilon>> /\ word = <<>>) => ~matched
        /\ (regexIn = PatAStar /\ word = <<chEpsilon>>) => ~matched

----------------------------------------------------------------------------
(* The pipeline of main -- preprocessRegex, toPostfix, regexToNFA,          *)
(* simulateNFA, clear -- applied to a well-formed pattern over A and G and  *)
(* to a test string over A, G and X.  On these patterns regexToNFA has no   *)
(* construction error (C20), so its two exit(1) steps are not enabled.      *)

MaxLangWord == 3

LangPatterns == {p \in Patterns : WellFormed(p)}
LangWords == WordsOver({65, 71, 88}, MaxLangWord)

CallLangPhase1 ==
    /\ alive /\ lpc = "idle"
    /\ \E rawRegex \in LangPatterns : MainPhase1(rawRegex)

LangSimulate ==
    /\ alive /\ lpc = "main-sim"
    /\ \E testStr \in LangWords :
          /\ word' = testStr
          /\ matched' = simulateNFA(stateStore, nfa, testStr)
    /\ lpc' = "main-clear"
    /\ UNCHANGED <<stateStore, globalID, regexIn, postfix, pos, st, nfa, stateCount,
                   testNum, output>>
    /\ UNCHANGED <<alive, pdaVars, preVars, simVars>>

NextLang ==
    \/ CallLangPhase1
    \/ BuildConcat
    \/ BuildUnion
    \/ BuildStar
    \/ BuildChar
    \/ MainBuildReturn
    \/ LangSimulate
    \/ MainClear

SpecLang == Init /\ [][NextLang]_vars

(* The regular language a well-formed pattern denotes, read off the pattern *)
(* by the grammar of WellFormed: InAlt(str, lo, hi, w) is "w belongs to the *)
(* language of the alternation str[lo..hi]".  X+ is X followed by X*.       *)
RECURSIVE InAlt(_, _, _, _)
RECURSIVE InCat(_, _, _, _)
RECURSIVE InRep(_, _, _, _)
RECURSIVE InStar(_, _, _, _)
RECURSIVE InAtom(_, _, _, _)
InAlt(str, lo, hi, w) ==
    \/ IsCat(str, lo, hi) /\ InCat(str, lo, hi, w)
    \/ \E k \in (lo + 1)..(hi - 1) :
          /\ str[k] = chBar /\ IsAlt(str, lo, k - 1) /\ IsCat(str, k + 1, hi)
          /\ (InAlt(str, lo, k - 1, w) \/ InCat(str, k + 1, hi, w))

InCat(str, lo, hi, w) ==
    \/ IsRep(str, lo, hi) /\ InRep(str, lo, hi, w)
    \/ \E k \in lo..(hi - 1) :
          /\ IsCat(str, lo, k) /\ IsRep(str, k + 1, hi)
          /\ \E j \in 0..Len(w) :
                /\ InCat(str, lo, k, SubSeq(w, 1, j))
                /\ InRep(str, k + 1, hi, SubSeq(w, j + 1, Len(w)))

InRep(str, lo, hi, w) ==
    \/ IsAtom(str, lo, hi) /\ InAtom(str, lo, hi, w)
    \/ /\ hi > lo /\ str[hi] = chStar /\ IsRep(str, lo, hi - 1)
       /\ InStar(str, lo, hi - 1, w)
    \/ /\ hi > lo /\ str[hi] = chPlus /\ IsRep(str, lo, hi - 1)
       /\ \E j \in 0..Len(w) :
             /\ InRep(str, lo, hi - 1, SubSeq(w, 1, j))
             /\ InStar(str, lo, hi - 1, SubSeq(w, j + 1, Len(w)))

\* w is a concatenation of zero or more strings of the language of str[lo..hi]
InStar(str, lo, hi, w) ==
    \/ w = <<>>
    \/ \E j \in 1..Len(w) :
          /\ InRep(str, lo, hi, SubSeq(w, 1, j))
          /\ InStar(str, lo, hi, SubSeq(w, j + 1, Len(w)))

InAtom(str, lo, hi, w) ==
    \/ lo = hi /\ IsLiteral(str[lo]) /\ w = <<str[lo]>>
    \/ /\ hi >= lo + 2 /\ str[lo] = chLParen /\ str[hi] = chRParen
       /\ IsAlt(str, lo + 1, hi - 1)
       /\ InAlt(str, lo + 1, hi - 1, w)

InLanguage(p, w) == InAlt(p, 1, Len(p), w)

\* C34: for every well-formed pattern p over the literals A and G using |,
\* *, + and grouping, and every string w over A, G, X within the bounds,
\* regexToNFA builds toPostfix(preprocessRegex(p)) without a construction
\* error and simulateNFA on the result returns true if and only if w belongs
\* to the regular language p denotes, + meaning one or more repetitions.
C34_AcceptsTheLanguage ==
    /\ WellFormed(regexIn) => ~C5_ConstructionError
    /\ (MainSimulated /\ WellFormed(regexIn)) =>
           (matched <=> InLanguage(regexIn, word))

\* parse has been entered and has not returned
InParse == pc \in {"loop", "done"}

\* C35: in every state of the parser loop the stack is non-empty with the
\* end-marker as its bottom element and nowhere else (so the end-marker is
\* never popped), and the read pointer is an index into the token sequence
\* extended by the end-marker, whose last element is that end-marker: no
\* token past it is read.
C35_StackAndPointer ==
    InParse =>
        /\ Len(s) >= 1
        /\ s[1] = "$"
        /\ \A i \in 2..Len(s) : s[i] # "$"
        /\ ptr \in 0..(Len(tokens) - 1)
        /\ tokens[Len(tokens)] = "$"

\* the loop reads the appended end-marker with only the end-marker left on
\* the stack, after three caller tokens
C35_Witness ==
    /\ alive /\ pc = "loop"
    /\ s = <<"$">>
    /\ Len(tokens) = 4 /\ ptr = 3
    /\ "Match via" \in TraceActions

\* C36: whenever parse reports accept, every token supplied by the caller
\* has been consumed: the read pointer is at the end-marker appended by
\* parse (the last element of the token vector), for every caller token
\* sequence, including ones that contain the symbol $ as a token.
C36_AcceptConsumesAll ==
    (pc = "done" /\ result = "accept") => ptr = Len(tokens) - 1

\* the verdict of the loop of parse run from the stack, the read pointer rp
\* and the adaptive map given, on the token vector toks (end-marker appended)
RECURSIVE VerdictFrom(_, _, _, _)
VerdictFrom(stack, rp, toks, map) ==
    IF Len(stack) = 0 THEN "fellout"
    ELSE LET top == stack[Len(stack)]
             la == toks[rp + 1]
             b == Branch(top, la, map)
         IN  CASE b = "accept" -> "accept"
               [] b \in {"match", "via"} -> VerdictFrom(Pop(stack), rp + 1, toks, map)
               [] b = "repair" ->
                     IF RepairDecision(Affinity(top, la)) = "low" THEN "affinity"
                     ELSE VerdictFrom(stack, rp, toks, Learn(map, la, top))
               [] b = "expand" ->
                     VerdictFrom(PushReversed(Pop(stack),
                                     grammar[parsingTable[top][la] + 1].rhs),
                                 rp, toks, map)
               [] b = "error" -> "structural"
               [] OTHER -> "unknown"

\* the verdict of parse(toks) on a parser whose adaptive map is map
Verdict(toks, map) ==
    VerdictFrom(<<"$", startSymbol>>, 0, Append(toks, "$"), map)

\* C37: the verdict of parse on a token sequence (accept, affinity-reject
\* or structural-reject) does not depend on the adaptive map the parse
\* starts with, for every map earlier parses on the same parser can have
\* left: the verdict of the run that started from such a map is the verdict
\* the same tokens get from the empty map.
C37_VerdictIndependentOfMap ==
    Ended =>
        /\ result \in {"accept", "affinity", "structural"}
        /\ result = Verdict(CallerTokens, map0)
        /\ result = Verdict(CallerTokens, EmptyMap)

\* [A, ., U] accepted by a parse that started with U -> T in the map and
\* shifted U via it, where a parser with an empty map needs a repair
C37_Witness ==
    /\ pc = "done" /\ result = "accept"
    /\ map0 = ("U" :> "T")
    /\ CallerTokens = <<"A", ".", "U">>
    /\ "Match via" \in TraceActions /\ "ALERT high" \notin TraceActions

\* every entry actual -> expected of map is a substitution of affinity above
\* 0.5 between two different tokens, neither being the end-marker
EntriesJustified(map) ==
    \A actual \in DOMAIN map :
        /\ Affinity(map[actual], actual) > LowThreshold
        /\ actual # map[actual]
        /\ actual # "$" /\ map[actual] # "$"

\* C38: in every reachable state each entry actual -> expected of the
\* adaptive map satisfies affinity(expected, actual) > 0.5 with actual
\* different from expected and neither side the end-marker; the map holds
\* one expected token per actual token, a repair for an actual token that
\* has an entry replacing that entry and leaving the others.
C38_MapEntries ==
    [][ /\ EntriesJustified(adaptiveMap)
        /\ EntriesJustified(adaptiveMap')
        /\ adaptiveMap' # adaptiveMap =>
              /\ DOMAIN adaptiveMap' = DOMAIN adaptiveMap \cup {Lookahead}
              /\ adaptiveMap'[Lookahead] = Top
              /\ \A actual \in DOMAIN adaptiveMap \ {Lookahead} :
                    adaptiveMap'[actual] = adaptiveMap[actual] ]_vars

\* the entry U -> T the parse started with has been replaced by U -> C
C38_Witness ==
    /\ alive /\ pc = "loop"
    /\ map0 = ("U" :> "T")
    /\ adaptiveMap = ("U" :> "C")

====
